---- MODULE Spec2Model ----
(***************************************************************************)
(* Model of scripts/vector_to_raster.py: the vector-to-raster pipeline of  *)
(* main() and the functions it calls.                                      *)
(*                                                                         *)
(* Geometry is modelled by axis-aligned rectangles with integer corners;   *)
(* a null geometry is a record with null = TRUE.  Every row of the         *)
(* GeoDataFrame carries its index label (id), which row selection keeps.   *)
(***************************************************************************)
EXTENDS Integers, Sequences, FiniteSets, TLC

VARIABLES
    CROP_BBOX,          \* configuration: [given, minx, miny, maxx, maxy]
    DN_THRESHOLD,       \* configuration: [given, value]
    PIXEL_RESOLUTION,   \* configuration: pixel size
    OUTPUT_VALUE_TYPE,  \* configuration: name of the value encoding
    source,             \* the rows of INPUT_FILE
    gdf,                \* the GeoDataFrame main() is working on
    prev,               \* the GeoDataFrame before the last operation
    pc,                 \* position in main() (or in a single call)
    calls,              \* names of the functions called so far, in order
    stats,              \* stats entries of main(): <<key, feature_count>>
    shape,              \* [set, rows, cols]
    transform,          \* [set, minx, maxy, width, height, cols, rows]
    raster_array,       \* rows of pixel values; << >> while there is none
    tiff,               \* content of OUTPUT_TIFF; << >> while not written
    error               \* "" or the reason of sys.exit(1)

vars == <<CROP_BBOX, DN_THRESHOLD, PIXEL_RESOLUTION, OUTPUT_VALUE_TYPE, source,
          gdf, prev, pc, calls, stats, shape, transform, raster_array, tiff, error>>

config == <<CROP_BBOX, DN_THRESHOLD, PIXEL_RESOLUTION, OUTPUT_VALUE_TYPE, source>>

(***************************************************************************)
(* Bounds of the model.                                                    *)
(***************************************************************************)
MaxFeatures == 2        \* rows of the input file, over every configuration
MaxRasterFeatures == 3  \* rows of the input file, under a valid configuration
MaxCoord == 2           \* largest map coordinate of the grid-sizing runs
MaxRes == 2             \* largest |resolution| of the grid-sizing runs

(***************************************************************************)
(* Values.                                                                 *)
(***************************************************************************)
Rect(x0, y0, x1, y1) == [null |-> FALSE, x0 |-> x0, y0 |-> y0, x1 |-> x1, y1 |-> y1]
NullGeom == [null |-> TRUE, x0 |-> 0, y0 |-> 0, x1 |-> 0, y1 |-> 0]

NoBBox == [given |-> FALSE, minx |-> 0, miny |-> 0, maxx |-> 0, maxy |-> 0]
BBox(a, b, c, d) == [given |-> TRUE, minx |-> a, miny |-> b, maxx |-> c, maxy |-> d]

NoThreshold == [given |-> FALSE, value |-> 0]
Threshold(t) == [given |-> TRUE, value |-> t]

NoShape == [set |-> FALSE, rows |-> 0, cols |-> 0]
NoTransform == [set |-> FALSE, minx |-> 0, maxy |-> 0, width |-> 0, height |-> 0,
                cols |-> 0, rows |-> 0]

\* A GeoDataFrame from n (geometry, DN) pairs; the index labels are 1..n.
MkGdf(n, f) == [i \in 1..n |-> [id |-> i, geometry |-> f[i][1], DN |-> f[i][2]]]

Frames(geoms, dns, lo, hi) ==
    UNION {{MkGdf(n, f) : f \in [1..n -> geoms \X dns]} : n \in lo..hi}

Min(a, b) == IF a <= b THEN a ELSE b
Max(a, b) == IF a >= b THEN a ELSE b

(***************************************************************************)
(* filter_null_geometries: gdf[gdf.geometry.notna()]                       *)
(***************************************************************************)
notna(row) == ~row.geometry.null

filter_null_geometries(g) == SelectSeq(g, notna)

(***************************************************************************)
(* crop_to_bbox: gdf.cx[minx:maxx, miny:maxy] selects the rows whose       *)
(* geometry intersects box(minx, miny, maxx, maxy); touching counts.       *)
(***************************************************************************)
overlaps(geom, bbox) ==
    /\ ~geom.null
    /\ geom.x0 < bbox.maxx /\ bbox.minx < geom.x1
    /\ geom.y0 < bbox.maxy /\ bbox.miny < geom.y1

intersects(geom, bbox) ==
    /\ ~geom.null
    /\ geom.x0 <= bbox.maxx /\ bbox.minx <= geom.x1
    /\ geom.y0 <= bbox.maxy /\ bbox.miny <= geom.y1

crop_to_bbox(g, bbox) ==
    IF ~bbox.given
    THEN g
    ELSE LET keep(row) == intersects(row.geometry, bbox)
         IN  SelectSeq(g, keep)

(***************************************************************************)
(* filter_by_dn_threshold: gdf[gdf['DN'] >= threshold].  The function has  *)
(* no branch for an absent threshold: the comparison of the DN column with *)
(* None is left to the library, which either selects no row or raises.     *)
(* The result is the set of possible outcomes.                             *)
(***************************************************************************)
dn_gt(g, t) ==
    LET keep(row) == row.DN > t
    IN  SelectSeq(g, keep)

dn_ge(g, t) ==
    LET keep(row) == row.DN >= t
    IN  SelectSeq(g, keep)

filter_unless_absent(g, threshold) ==
    IF threshold.given
    THEN {[raised |-> FALSE, gdf |-> dn_ge(g, threshold.value)]}
    ELSE {[raised |-> FALSE, gdf |-> g]}

filter_by_dn_threshold(g, threshold) ==
    IF threshold.given
    THEN {[raised |-> FALSE, gdf |-> dn_ge(g, threshold.value)]}
    ELSE {[raised |-> FALSE, gdf |-> << >>], [raised |-> TRUE, gdf |-> g]}

(***************************************************************************)
(* calculate_raster_params                                                 *)
(***************************************************************************)
RECURSIVE total_bounds_from(_, _, _)
total_bounds_from(g, i, acc) ==
    IF i > Len(g) THEN acc
    ELSE LET ge == g[i].geometry
         IN  IF ge.null THEN total_bounds_from(g, i + 1, acc)
             ELSE IF ~acc.valid
             THEN total_bounds_from(g, i + 1,
                    [valid |-> TRUE, minx |-> ge.x0, miny |-> ge.y0,
                     maxx |-> ge.x1, maxy |-> ge.y1])
             ELSE total_bounds_from(g, i + 1,
                    [valid |-> TRUE,
                     minx |-> Min(acc.minx, ge.x0), miny |-> Min(acc.miny, ge.y0),
                     maxx |-> Max(acc.maxx, ge.x1), maxy |-> Max(acc.maxy, ge.y1)])

\* gdf.total_bounds; valid = FALSE stands for the all-NaN bounds of a frame
\* without geometries.
total_bounds(g) ==
    total_bounds_from(g, 1, [valid |-> FALSE, minx |-> 0, miny |-> 0, maxx |-> 0, maxy |-> 0])

\* int(np.ceil(a / b)) for a >= 0 and b # 0
ceil_div(a, b) ==
    IF b > 0 THEN (a + b - 1) \div b
    ELSE 0 - (a \div (0 - b))

\* rasterio.transform.from_bounds: the pixel size is width/cols by height/rows,
\* kept as the two fractions.
from_bounds(minx, miny, maxx, maxy, cols, rows) ==
    [set |-> TRUE, minx |-> minx, maxy |-> maxy,
     width |-> maxx - minx, height |-> maxy - miny, cols |-> cols, rows |-> rows]

calculate_raster_params(g, resolution) ==
    LET b == total_bounds(g)
        width == b.maxx - b.minx
        height == b.maxy - b.miny
    IN  IF ~b.valid \/ resolution = 0
        THEN \* width / resolution is nan or inf: int() raises
             [raised |-> TRUE, shape |-> NoShape, transform |-> NoTransform]
        ELSE LET cols == ceil_div(width, resolution)
                 rows == ceil_div(height, resolution)
             IN  [raised |-> FALSE,
                  shape |-> [set |-> TRUE, rows |-> rows, cols |-> cols],
                  transform |-> from_bounds(b.minx, b.miny, b.maxx, b.maxy, cols, rows)]

(***************************************************************************)
(* rasterize_polygons                                                      *)
(***************************************************************************)
ValueTypes == {"binary", "original_dn", "categorical"}

dn_to_category(dn) ==
    IF dn = 253 THEN 1
    ELSE IF dn = 254 THEN 2
    ELSE IF dn = 255 THEN 3
    ELSE 0

\* The value paired with a geometry in the shapes generator.
shape_value(value_type, dn) ==
    IF value_type = "binary" THEN 1
    ELSE IF value_type = "original_dn" THEN dn
    ELSE dn_to_category(dn)

\* The (geometry, value) pairs, in the order of the rows.
shapes_of(g, value_type) ==
    [i \in 1..Len(g) |-> [geom |-> g[i].geometry, value |-> shape_value(value_type, g[i].DN)]]

any_value_fits(v) == TRUE

\* np.uint8 holds the value (rasterize refuses values that do not survive the cast).
can_cast_uint8(v) == v >= 0 /\ v <= 255

\* all_touched=False: a pixel is burned when its centre lies in the polygon.
\* Pixel (r, c), counted from 1 from the upper-left corner, has its centre at
\* x = minx + (c - 1/2) * width/cols, y = maxy - (r - 1/2) * height/rows.
\* Centres on the left/bottom edge are in, centres on the right/top edge out.
covers(geom, t, r, c) ==
    LET cx2 == 2 * t.cols * t.minx + (2 * c - 1) * t.width    \* 2 * cols * x
        cy2 == 2 * t.rows * t.maxy - (2 * r - 1) * t.height   \* 2 * rows * y
    IN  /\ ~geom.null
        /\ 2 * t.cols * geom.x0 <= cx2 /\ cx2 < 2 * t.cols * geom.x1
        /\ 2 * t.rows * geom.y0 <= cy2 /\ cy2 < 2 * t.rows * geom.y1

burn_unset(out, sh, t) ==
    [r \in 1..Len(out) |->
        [c \in 1..Len(out[r]) |->
            IF covers(sh.geom, t, r, c) /\ out[r][c] = 0 THEN sh.value ELSE out[r][c]]]

burn_nonzero(out, sh, t) ==
    [r \in 1..Len(out) |->
        [c \in 1..Len(out[r]) |->
            IF covers(sh.geom, t, r, c) /\ sh.value # 0 THEN sh.value ELSE out[r][c]]]

\* Burning one shape into the array.
burn(out, sh, t) ==
    [r \in 1..Len(out) |->
        [c \in 1..Len(out[r]) |->
            IF covers(sh.geom, t, r, c) THEN sh.value ELSE out[r][c]]]

\* The shapes are burned one after the other, in their order.
RECURSIVE burn_all(_, _, _, _)
burn_all(out, shapes, i, t) ==
    IF i > Len(shapes) THEN out
    ELSE burn_all(burn(out, shapes[i], t), shapes, i + 1, t)

\* rasterio.features.rasterize(shapes, out_shape, transform, fill=0, dtype=uint8)
rasterize(shapes, out_shape, t) ==
    LET valid == SelectSeq(shapes, LAMBDA sh : ~sh.geom.null)
    IN  IF Len(valid) = 0
        THEN [raised |-> "ValueError: no valid geometry", array |-> << >>]
        ELSE IF \E i \in 1..Len(valid) : ~can_cast_uint8(valid[i].value)
        THEN [raised |-> "ValueError: shape values cannot be cast to uint8", array |-> << >>]
        ELSE IF out_shape.rows <= 0 \/ out_shape.cols <= 0
        THEN [raised |-> "ValueError: out_shape", array |-> << >>]
        ELSE [raised |-> "",
              array |-> burn_all([r \in 1..out_shape.rows |-> [c \in 1..out_shape.cols |-> 0]],
                                 valid, 1, t)]

rasterize_polygons_default(g, t, out_shape, value_type) ==
    rasterize(shapes_of(g, value_type), out_shape, t)

rasterize_polygons(g, t, out_shape, value_type) ==
    IF value_type \notin ValueTypes
    THEN [raised |-> "ValueError: Unknown value_type", array |-> << >>]
    ELSE rasterize(shapes_of(g, value_type), out_shape, t)

(***************************************************************************)
(* main(): one action per numbered step.  A step that finds no feature     *)
(* left calls sys.exit(1); an exception raised in a step is caught by the  *)
(* except clause, which calls sys.exit(1).                                 *)
(***************************************************************************)
never_empty(g) == FALSE

\* len(gdf) == 0, the check after the crop and after the DN filter
no_features(g) == Len(g) = 0

Exit1(reason) ==
    /\ pc' = "exit1"
    /\ error' = reason

Called(name) == calls' = Append(calls, name)

Report(key, g) == stats' = Append(stats, <<key, Len(g)>>)

\* 1. Load data
LoadVectorData ==
    /\ pc = "load"
    /\ prev' = gdf
    /\ gdf' = source
    /\ Called("load_vector_data")
    /\ Report("1_loaded", source)
    /\ pc' = "filter_nulls"
    /\ UNCHANGED <<config, shape, transform, raster_array, tiff, error>>

\* 2. Filter null geometries
FilterNullGeometries ==
    /\ pc = "filter_nulls"
    /\ prev' = gdf
    /\ gdf' = filter_null_geometries(gdf)
    /\ Called("filter_null_geometries")
    /\ Report("2_filtered_nulls", gdf')
    /\ pc' = "crop"
    /\ UNCHANGED <<config, shape, transform, raster_array, tiff, error>>

\* 3. Spatial crop, and the check that features remain
CropToBbox ==
    /\ pc = "crop"
    /\ prev' = gdf
    /\ gdf' = crop_to_bbox(gdf, CROP_BBOX)
    /\ Called("crop_to_bbox")
    /\ Report("3_cropped", gdf')
    /\ IF no_features(gdf')
       THEN Exit1("No features remaining after cropping")
       ELSE pc' = "filter_dn" /\ error' = error
    /\ UNCHANGED <<config, shape, transform, raster_array, tiff>>

\* 4. Filter by DN threshold, and the check that features remain
FilterByDnThreshold ==
    /\ pc = "filter_dn"
    /\ \E out \in filter_by_dn_threshold(gdf, DN_THRESHOLD) :
        /\ prev' = gdf
        /\ Called("filter_by_dn_threshold")
        /\ IF out.raised
           THEN /\ Exit1("TypeError")
                /\ UNCHANGED <<gdf, stats>>
           ELSE /\ gdf' = out.gdf
                /\ Report("4_filtered_dn", out.gdf)
                /\ IF no_features(out.gdf)
                   THEN Exit1("No features remaining after filtering DN")
                   ELSE pc' = "raster_params" /\ error' = error
    /\ UNCHANGED <<config, shape, transform, raster_array, tiff>>

\* 5. Calculate raster parameters
CalculateRasterParams ==
    /\ pc = "raster_params"
    /\ LET out == calculate_raster_params(gdf, PIXEL_RESOLUTION)
       IN  /\ Called("calculate_raster_params")
           /\ IF out.raised
              THEN /\ Exit1("cannot convert float to integer")
                   /\ UNCHANGED <<shape, transform>>
              ELSE /\ shape' = out.shape
                   /\ transform' = out.transform
                   /\ pc' = "rasterize"
                   /\ error' = error
    /\ UNCHANGED <<config, gdf, prev, stats, raster_array, tiff>>

\* 6. Rasterize polygons
RasterizePolygons ==
    /\ pc = "rasterize"
    /\ LET out == rasterize_polygons(gdf, transform, shape, OUTPUT_VALUE_TYPE)
       IN  /\ Called("rasterize_polygons")
           /\ IF out.raised # ""
              THEN /\ Exit1(out.raised)
                   /\ UNCHANGED raster_array
              ELSE /\ raster_array' = out.array
                   /\ pc' = "write"
                   /\ error' = error
    /\ UNCHANGED <<config, gdf, prev, stats, shape, transform, tiff>>

\* 7. Write GeoTIFF
WriteGeotiff ==
    /\ pc = "write"
    /\ tiff' = raster_array
    /\ Called("write_geotiff")
    /\ pc' = "report"
    /\ UNCHANGED <<config, gdf, prev, stats, shape, transform, raster_array, error>>

\* 8. Create preview, 9. Write processing report
PreviewAndReport ==
    /\ pc = "report"
    /\ Called("write_processing_report")
    /\ pc' = "done"
    /\ UNCHANGED <<config, gdf, prev, stats, shape, transform, raster_array, tiff, error>>

Next ==
    \/ LoadVectorData
    \/ FilterNullGeometries
    \/ CropToBbox
    \/ FilterByDnThreshold
    \/ CalculateRasterParams
    \/ RasterizePolygons
    \/ WriteGeotiff
    \/ PreviewAndReport

\* The state before main() runs, for given inputs.
Start(bbox, threshold, resolution, value_type, rows) ==
    /\ CROP_BBOX = bbox
    /\ DN_THRESHOLD = threshold
    /\ PIXEL_RESOLUTION = resolution
    /\ OUTPUT_VALUE_TYPE = value_type
    /\ source = rows
    /\ gdf = << >>
    /\ prev = << >>
    /\ pc = "load"
    /\ calls = << >>
    /\ stats = << >>
    /\ shape = NoShape
    /\ transform = NoTransform
    /\ raster_array = << >>
    /\ tiff = << >>
    /\ error = ""

(***************************************************************************)
(* Spec: main() over every configuration, on small input files.            *)
(***************************************************************************)
SquareA == Rect(0, 0, 3, 3)
SquareB == Rect(2, 2, 3, 3)

MainGeoms == {NullGeom, SquareA, SquareB}
MainDNs == {100, 253, 255, 300}
MainBBoxes == {NoBBox, BBox(0, 0, 1, 1)}
MainThresholds == {NoThreshold, Threshold(254)}
MainResolutions == {-1, 0, 1, 2}
MainValueTypes == ValueTypes \cup {"grayscale"}

Init ==
    \E bbox \in MainBBoxes, threshold \in MainThresholds,
       resolution \in MainResolutions, value_type \in MainValueTypes,
       rows \in Frames(MainGeoms, MainDNs, 0, MaxFeatures) :
        Start(bbox, threshold, resolution, value_type, rows)

Spec == Init /\ [][Next]_vars

(***************************************************************************)
(* SpecFilter: main() over a range of thresholds and DN values.            *)
(***************************************************************************)
FilterDNs == 253..255
FilterThresholds == {Threshold(t) : t \in 252..256}

InitFilter ==
    \E threshold \in FilterThresholds,
       rows \in Frames({SquareA}, FilterDNs, 0, MaxRasterFeatures) :
        Start(NoBBox, threshold, 1, "binary", rows)

SpecFilter == InitFilter /\ [][Next]_vars

(***************************************************************************)
(* SpecGrid: main() over every extent with corners in 0..MaxCoord and      *)
(* every resolution in -MaxRes..MaxRes.                                    *)
(***************************************************************************)
GridGeoms ==
    {Rect(q[1], q[2], q[3], q[4]) :
        q \in {p \in (0..MaxCoord) \X (0..MaxCoord) \X (0..MaxCoord) \X (0..MaxCoord) :
                  p[1] <= p[3] /\ p[2] <= p[4]}}

InitGrid ==
    \E resolution \in (0 - MaxRes)..MaxRes, rows \in Frames(GridGeoms, {255}, 1, 1) :
        Start(NoBBox, Threshold(253), resolution, "binary", rows)

SpecGrid == InitGrid /\ [][Next]_vars

(***************************************************************************)
(* SpecRaster: main() over overlapping polygons, for every encoding.       *)
(***************************************************************************)
RasterGeoms == {Rect(0, 0, 2, 2), Rect(1, 1, 2, 2)}
RasterDNs == {100, 253, 254, 255, 300}
RasterThresholds == {Threshold(0), Threshold(254)}

InitRaster ==
    \E threshold \in RasterThresholds, value_type \in ValueTypes,
       rows \in Frames(RasterGeoms, RasterDNs, 1, MaxRasterFeatures) :
        Start(NoBBox, threshold, 1, value_type, rows)

SpecRaster == InitRaster /\ [][Next]_vars

(***************************************************************************)
(* SpecCrop: crop_to_bbox called on its own result.                        *)
(***************************************************************************)
MaxCrops == 2

CropGeoms ==
    {NullGeom} \cup
    {Rect(x0, y0, x1, y1) : x0 \in 0..1, y0 \in 0..1, x1 \in 1..2, y1 \in 1..2}
    \cup {Rect(2, 2, 2, 2), Rect(0, 2, 1, 2)}
CropBBoxes == {NoBBox, BBox(0, 0, 0, 0), BBox(1, 1, 2, 2), BBox(2, 0, 2, 0)}

CallCropToBbox ==
    /\ pc = "call"
    /\ Len(calls) < MaxCrops
    /\ prev' = gdf
    /\ gdf' = crop_to_bbox(gdf, CROP_BBOX)
    /\ Called("crop_to_bbox")
    /\ UNCHANGED <<config, pc, stats, shape, transform, raster_array, tiff, error>>

InitCrop ==
    \E bbox \in CropBBoxes, rows \in Frames(CropGeoms, {255}, 0, MaxFeatures) :
        /\ CROP_BBOX = bbox
        /\ DN_THRESHOLD = Threshold(253)
        /\ PIXEL_RESOLUTION = 1
        /\ OUTPUT_VALUE_TYPE = "binary"
        /\ source = rows
        /\ gdf = rows
        /\ prev = rows
        /\ pc = "call"
        /\ calls = << >>
        /\ stats = << >>
        /\ shape = NoShape
        /\ transform = NoTransform
        /\ raster_array = << >>
        /\ tiff = << >>
        /\ error = ""

NextCrop == CallCropToBbox

SpecCrop == InitCrop /\ [][NextCrop]_vars

(***************************************************************************)
(* Properties.                                                             *)
(***************************************************************************)
HasCalled(name) == \E i \in 1..Len(calls) : calls[i] = name

Counted(key, n) == \E i \in 1..Len(stats) : stats[i] = <<key, n>>

InFrame(row, g) == \E i \in 1..Len(g) : g[i] = row

\* The rows of g are rows of the input file, in the order of the file.
InSourceOrder(g) ==
    /\ \A i \in 1..Len(g) : g[i].id \in 1..Len(source) /\ source[g[i].id] = g[i]
    /\ \A i, j \in 1..Len(g) : i < j => g[i].id < g[j].id

\* C1: after filter_by_dn_threshold with threshold t, every row kept has
\* DN >= t, every row of the input that was not kept has DN < t, and the rows
\* kept plus the rows removed are the rows of the input.
C1_ThresholdFilter ==
    (HasCalled("filter_by_dn_threshold") /\ DN_THRESHOLD.given) =>
        LET t == DN_THRESHOLD.value
            removed == {i \in 1..Len(prev) : ~InFrame(prev[i], gdf)}
        IN  /\ \A i \in 1..Len(gdf) : gdf[i].DN >= t /\ InFrame(gdf[i], prev)
            /\ \A i \in removed : prev[i].DN < t
            /\ Len(gdf) + Cardinality(removed) = Len(prev)

C1_Witness ==
    /\ HasCalled("filter_by_dn_threshold")
    /\ DN_THRESHOLD.given
    /\ Len(gdf) > 0
    /\ Len(gdf) < Len(prev)
    /\ \E i \in 1..Len(gdf) : gdf[i].DN = DN_THRESHOLD.value

\* C8: crop_to_bbox keeps exactly the rows whose geometry has a point in
\* common with the box, in their order; called again with the same box on its
\* own result it returns that result; without a box it returns its input.
HasCommonPoint(geom, bbox) ==
    /\ ~geom.null
    /\ \E x \in geom.x0..geom.x1, y \in geom.y0..geom.y1 :
          /\ bbox.minx <= x /\ x <= bbox.maxx
          /\ bbox.miny <= y /\ y <= bbox.maxy

C8_CropIdempotent ==
    /\ ~CROP_BBOX.given => gdf = source
    /\ (CROP_BBOX.given /\ Len(calls) >= 1) =>
          /\ InSourceOrder(gdf)
          /\ \A i \in 1..Len(source) :
                InFrame(source[i], gdf) <=> HasCommonPoint(source[i].geometry, CROP_BBOX)
    /\ Len(calls) >= 2 => gdf = prev

C8_Witness ==
    /\ CROP_BBOX.given
    /\ Len(calls) = 2
    /\ Len(gdf) >= 1
    /\ Len(gdf) < Len(source)
    /\ gdf = prev

\* C2: when the crop, or the DN filter, leaves no feature, main() exits with
\* status 1 at that step; no later step is called and no raster is produced
\* or written.
C2_EmptyResultAborts ==
    /\ Counted("3_cropped", 0) =>
          /\ pc = "exit1"
          /\ error = "No features remaining after cropping"
          /\ calls = <<"load_vector_data", "filter_null_geometries", "crop_to_bbox">>
          /\ ~shape.set /\ raster_array = << >> /\ tiff = << >>
    /\ Counted("4_filtered_dn", 0) =>
          /\ pc = "exit1"
          /\ error = "No features remaining after filtering DN"
          /\ calls = <<"load_vector_data", "filter_null_geometries", "crop_to_bbox",
                       "filter_by_dn_threshold">>
          /\ ~shape.set /\ raster_array = << >> /\ tiff = << >>

C2_Witness ==
    /\ Counted("4_filtered_dn", 0)
    /\ DN_THRESHOLD.given
    /\ CROP_BBOX.given
    /\ Len(prev) > 0
    /\ Len(prev) < Len(source)
    /\ pc = "exit1"

\* C5 as claimed: main() fails on an unknown value type before any filtering
\* or grid computation has been performed.
C5_FailsBeforeAnyWork ==
    error = "ValueError: Unknown value_type" =>
        /\ ~HasCalled("filter_null_geometries")
        /\ ~HasCalled("crop_to_bbox")
        /\ ~HasCalled("filter_by_dn_threshold")
        /\ ~HasCalled("calculate_raster_params")

\* C5 as amended: with an unknown value type main() never produces or writes
\* a raster; rasterize_polygons, once called, fails on the value type whatever
\* the features and the grid are; and by then the filters and the grid
\* computation have been performed.
C5_UnknownValueType ==
    OUTPUT_VALUE_TYPE \notin ValueTypes =>
        /\ raster_array = << >> /\ tiff = << >>
        /\ pc \notin {"write", "report", "done"}
        /\ HasCalled("rasterize_polygons") =>
              /\ pc = "exit1"
              /\ error = "ValueError: Unknown value_type"
        /\ error = "ValueError: Unknown value_type" =>
              /\ calls = <<"load_vector_data", "filter_null_geometries", "crop_to_bbox",
                           "filter_by_dn_threshold", "calculate_raster_params",
                           "rasterize_polygons">>
              /\ shape.set

C5_Witness ==
    /\ OUTPUT_VALUE_TYPE \notin ValueTypes
    /\ error = "ValueError: Unknown value_type"
    /\ shape.set /\ shape.rows > 0 /\ shape.cols > 0
    /\ Len(gdf) < Len(source)

\* C6: with a resolution <= 0, calculate_raster_params fails: it returns no
\* grid, and rasterize_polygons is not called.
C6_NonPositiveResolution ==
    (PIXEL_RESOLUTION <= 0 /\ HasCalled("calculate_raster_params")) =>
        /\ pc = "exit1"
        /\ ~shape.set
        /\ ~HasCalled("rasterize_polygons")

LeastCover(extent, r) ==
    CHOOSE n \in 0..extent : n * r >= extent /\ \A m \in 0..(n - 1) : m * r < extent

C3_GridSizing ==
    (PIXEL_RESOLUTION > 0 /\ shape.set) =>
        /\ shape.cols = Max(1, LeastCover(transform.width, PIXEL_RESOLUTION))
        /\ shape.rows = Max(1, LeastCover(transform.height, PIXEL_RESOLUTION))
        /\ shape.cols >= 1 /\ shape.rows >= 1

Pixels == {p \in (1..Len(raster_array)) \X (1..shape.cols) : TRUE}

\* The rows of gdf whose polygon holds the centre of pixel p.
Covering(p) == {i \in 1..Len(gdf) : covers(gdf[i].geometry, transform, p[1], p[2])}

Last(S) == CHOOSE i \in S : \A j \in S : j <= i

\* C4: under original_dn, rasterizing features one of which has a DN outside
\* 0..255 fails on that value and yields no raster; every pixel of a raster
\* that is produced is in 0..255.
C4_EncodingDomain ==
    /\ (/\ OUTPUT_VALUE_TYPE = "original_dn"
        /\ HasCalled("rasterize_polygons")
        /\ \E i \in 1..Len(gdf) : gdf[i].DN < 0 \/ gdf[i].DN > 255) =>
          /\ pc = "exit1"
          /\ error = "ValueError: shape values cannot be cast to uint8"
          /\ raster_array = << >> /\ tiff = << >>
    /\ \A p \in Pixels : raster_array[p[1]][p[2]] \in 0..255

C4_Witness ==
    /\ OUTPUT_VALUE_TYPE = "original_dn"
    /\ HasCalled("rasterize_polygons")
    /\ \E i \in 1..Len(gdf) : gdf[i].DN = 300
    /\ \E i \in 1..Len(gdf) : gdf[i].DN = 255
    /\ pc = "exit1"

\* C7: the features that reach the rasterization are in the order of the
\* input, and every pixel whose centre lies in one or more of them holds the
\* value of the last of these (1 under binary, its DN under original_dn, its
\* category under categorical); every other pixel holds 0.
ValueOf(row) ==
    IF OUTPUT_VALUE_TYPE = "binary" THEN 1
    ELSE IF OUTPUT_VALUE_TYPE = "original_dn" THEN row.DN
    ELSE CASE row.DN = 253 -> 1 [] row.DN = 254 -> 2 [] row.DN = 255 -> 3 [] OTHER -> 0

C7_LastFeatureWins ==
    /\ InSourceOrder(gdf)
    /\ \A p \in Pixels :
          IF Covering(p) = {}
          THEN raster_array[p[1]][p[2]] = 0
          ELSE raster_array[p[1]][p[2]] = ValueOf(gdf[Last(Covering(p))])
    /\ \A p \in Pixels :
          \A i, j \in Covering(p) :
             (i < j /\ j = Last(Covering(p)) /\ gdf[i].DN = 253 /\ gdf[j].DN = 255) =>
                raster_array[p[1]][p[2]] =
                   (IF OUTPUT_VALUE_TYPE = "binary" THEN 1
                    ELSE IF OUTPUT_VALUE_TYPE = "original_dn" THEN 255 ELSE 3)

C7_Witness ==
    /\ raster_array # << >>
    /\ OUTPUT_VALUE_TYPE = "categorical"
    /\ Len(gdf) < Len(source)
    /\ \E p \in Pixels :
          \E i, j \in Covering(p) :
             /\ i < j /\ j = Last(Covering(p))
             /\ gdf[i].DN = 255 /\ gdf[j].DN = 254
             /\ raster_array[p[1]][p[2]] = 2

\* C10: under categorical every pixel is 0, 1, 2 or 3: 1, 2, 3 where the last
\* feature over the pixel has DN 253, 254, 255, and 0 where it has any other
\* DN, also when a feature before it over the same pixel has DN 253..255.
C10_CategoricalErasure ==
    (OUTPUT_VALUE_TYPE = "categorical" /\ raster_array # << >>) =>
        \A p \in Pixels :
            /\ raster_array[p[1]][p[2]] \in {0, 1, 2, 3}
            /\ Covering(p) # {} =>
                  LET dn == gdf[Last(Covering(p))].DN
                  IN  /\ dn = 253 => raster_array[p[1]][p[2]] = 1
                      /\ dn = 254 => raster_array[p[1]][p[2]] = 2
                      /\ dn = 255 => raster_array[p[1]][p[2]] = 3
                      /\ dn \notin {253, 254, 255} => raster_array[p[1]][p[2]] = 0

C10_Witness ==
    /\ OUTPUT_VALUE_TYPE = "categorical"
    /\ raster_array # << >>
    /\ \E p \in Pixels :
          \E i, j \in Covering(p) :
             /\ i < j /\ j = Last(Covering(p))
             /\ gdf[i].DN = 255 /\ gdf[j].DN = 100
             /\ raster_array[p[1]][p[2]] = 0

====
